---- MODULE Spec2Model ----
(***************************************************************************)
(* immich-tz-fixer: run() of src/immich_tz_fixer/main.py as a state        *)
(* machine.  One behaviour is one invocation of the command line tool:     *)
(* argument checks, the local file pass that builds `wisdom`, the search   *)
(* parameters (tag resolution), the paginated asset iterator and the       *)
(* per-asset reconciliation decision with its detail fetch and update.     *)
(*                                                                         *)
(* Time is counted in whole hours of one day.  Python's None / UNSET are   *)
(* the empty sequence for optional records (<<>> against <<x>>) and the    *)
(* string "None" for optional names.                                       *)
(***************************************************************************)
EXTENDS Integers, Sequences, FiniteSets, TLC

VARIABLES
    args,           \* argparse.Namespace: the command line
    srvPages,       \* the server's result for the search: the size of each page
    todo,           \* files pathfiles(*args.paths) has still to enumerate
    pc,             \* position of run()
    rc,             \* how run() ended: "running", the value returned ("0", "1") or
                    \* the exception that left it ("SystemExit(0)", "ImmichClientError")
    errors,         \* the error and early-exit messages printed or logged so far
    default_tz,     \* tzinfo of --timezone, "None" without one
    wisdom,         \* dict[str, datetime]: match key -> local timestamp
    processed,      \* number of files that gave a record
    clientOpened,   \* the AuthenticatedClient context has been entered
    search_params,  \* MetadataSearchDto: page and tag_ids
    response,       \* the search page _get_all_assets is iterating
    idx,            \* index in response.items of the next item to yield
    asset,          \* the asset of the current loop iteration, with its decision
    called,         \* kinds of remote call issued so far
    remoteChanged,  \* some stored asset timestamp was overwritten on the server
    served,         \* item ids of each page the server returned, in order
    yielded         \* item ids _get_all_assets yielded, in order

vars == <<args, srvPages, todo, pc, rc, errors, default_tz, wisdom, processed, clientOpened,
          search_params, response, idx, asset, called, remoteChanged,
          served, yielded>>

-----------------------------------------------------------------------------
(* Bounds of the model.                                                    *)

\* hours 0..MaxHour of the modelled day
MaxHour == 1
\* files the enumeration of the paths yields at most
MaxFiles == 2
\* pages a search chain has at most
MaxPages == 2
\* items a page carries at most
MaxPageItems == 2

Hours == 0..MaxHour

None == "None"

-----------------------------------------------------------------------------
(* Time zones and datetimes.                                               *)
(*                                                                         *)
(* A tzinfo is named by the string that dateutil.tz.gettz resolved.  The   *)
(* modelled day is the day "Europe/London" goes from UTC+0 to UTC+1: the   *)
(* transition is at 01:00 UTC, wall clocks jump from 01:00 to 02:00.       *)

ZoneNames == {"UTC", "UTC+01:00", "Europe/London"}

\* a zone name no tz database knows
BadZone == "Mars/Phobos"

\* dateutil.tz.gettz(name): the tzinfo, None for an unknown name
gettz(name) == IF name \in ZoneNames THEN name ELSE None

\* tzinfo.utcoffset(dt): the zone's offset for wall-clock fields `wall`.
\* dateutil resolves a wall clock inside the skipped hour with the offset
\* after the transition.
utcoffset(tz, wall) ==
    CASE tz = "UTC" -> 0
      [] tz = "UTC+01:00" -> 1
      [] tz = "Europe/London" -> IF wall < 1 THEN 0 ELSE 1

\* offset of the zone at an instant given in UTC (tzinfo.fromutc)
OffsetAtInstant(tz, utc) ==
    CASE tz = "UTC" -> 0
      [] tz = "UTC+01:00" -> 1
      [] tz = "Europe/London" -> IF utc < 1 THEN 0 ELSE 1

\* a datetime: wall-clock fields and tzinfo ("None": naive)
DateTime(wall, tz) == [wall |-> wall, tz |-> tz]

IsNaive(dt) == dt.tz = None

\* the instant in UTC of an aware datetime
Instant(dt) == dt.wall - utcoffset(dt.tz, dt.wall)

\* dt.replace(tzinfo=tz): same wall-clock fields, other label
ReplaceTz(dt, tz) == DateTime(dt.wall, tz)

\* dt.astimezone(tz): same instant, expressed in tz; a naive dt is taken to
\* be in the system's local zone `sys`
AsTimezone(dt, tz, sys) ==
    LET utc == IF IsNaive(dt) THEN dt.wall - utcoffset(sys, dt.wall)
                              ELSE Instant(dt)
    IN  DateTime(utc + OffsetAtInstant(tz, utc), tz)

\* datetime.__eq__ on two datetimes: naive against naive by fields, naive
\* against aware never equal, aware against aware by fields when the tzinfo
\* is the same object and by instant otherwise
DateTimeEq(a, b) ==
    IF IsNaive(a) /\ IsNaive(b) THEN a.wall = b.wall
    ELSE IF IsNaive(a) \/ IsNaive(b) THEN FALSE
    ELSE IF a.tz = b.tz THEN a.wall = b.wall
    ELSE Instant(a) = Instant(b)

\* datetime.isoformat(): wall-clock fields and, for an aware datetime, the
\* numeric offset; the zone's name is not part of the text
isoformat(dt) ==
    [wall |-> dt.wall,
     offset |-> IF IsNaive(dt) THEN <<>> ELSE <<utcoffset(dt.tz, dt.wall)>>]

-----------------------------------------------------------------------------
(* The command line and the local files.                                   *)

\* match keys are short character sequences, so that a prefix can be put
\* in front of one
KeyA == <<"a">>
KeyB == <<"b">>
Prefix == <<"p">>

\* pathlib.Path(name).stem and .suffix of a file name
Path(stem, suffix) == [stem |-> stem, suffix |-> suffix]

\* str.lower() on the suffixes of the model
lower(s) == CASE s = ".JPG" -> ".jpg" [] s = ".TXT" -> ".txt" [] OTHER -> s

\* the suffixes _read_path accepts
MediaSuffixes ==
    {".jpg", ".jpeg", ".rw2", ".mp4", ".mov", ".heic", ".tiff", ".avif",
     ".3gp", ".avi", ".webp", ".webm", ".m4v", ".m4a"}

\* what exiftool returns for a file: <<>> for nothing, else the tags
Metadatas ==
    {<<>>, <<[DateTimeOriginal |-> <<>>, OffsetTimeOriginal |-> None]>>} \cup
    {<<[DateTimeOriginal |-> <<h>>, OffsetTimeOriginal |-> o]>> :
        h \in Hours, o \in {None, "+01:00"}}

\* a regular file under the given paths
Files ==
    {[path |-> Path(k, ".txt"), metadata |-> <<>>] : k \in {KeyA, Prefix \o KeyA}} \cup
    {[path |-> Path(k, ".JPG"), metadata |-> m] :
        k \in {KeyA, Prefix \o KeyA}, m \in Metadatas}

\* sequences over S of length at most n
RECURSIVE SeqsUpTo(_, _)
SeqsUpTo(S, n) ==
    IF n = 0 THEN {<<>>}
    ELSE LET shorter == SeqsUpTo(S, n - 1)
         IN  shorter \cup {Append(q, x) : q \in {r \in shorter : Len(r) = n - 1}, x \in S}

\* the file lists an enumeration of the paths can give
FileLists == SeqsUpTo(Files, MaxFiles)

\* the command lines of the model
ArgsSet ==
    [dry_run : BOOLEAN,
     timezone : {None, BadZone, "Europe/London"},
     no_files : BOOLEAN,
     paths : BOOLEAN,
     try_prefix : {<<>>, <<Prefix>>},
     tags : {<<>>, <<"vacation">>}]

\* dateutil.tz.gettz("UTC" + offset tag): the fixed-offset zone of the tag
OffsetZone(tag) == gettz(CASE tag = "+01:00" -> "UTC+01:00" [] OTHER -> BadZone)

\* _read_path(path, default_date, et): <<>> for {} and <<[key, dt]>> for
\* the one-entry dict.  default_date matters by its tzinfo only: the parsed
\* capture time takes every clock field from the tag.
_read_path(file, default_date_tz) ==
    IF lower(file.path.suffix) \notin MediaSuffixes THEN <<>>
    ELSE IF file.metadata = <<>> THEN <<>>
    ELSE LET metadata == file.metadata[1]
             photo_date_str == metadata.DateTimeOriginal
         IN  IF photo_date_str = <<>> THEN <<>>
             ELSE LET tz == IF metadata.OffsetTimeOriginal # None
                            THEN OffsetZone(metadata.OffsetTimeOriginal)
                            ELSE default_date_tz
                  IN  <<[key |-> file.path.stem,
                         dt |-> DateTime(photo_date_str[1], tz)]>>

\* DictUpdate keeping the entry a key already has (dict.setdefault)
DictUpdateKeepFirst(d, rv) ==
    [k \in DOMAIN d \cup {rv.key} |-> IF k \in DOMAIN d THEN d[k] ELSE rv.dt]

\* dict.update(rv) on wisdom
DictUpdate(d, rv) ==
    [k \in DOMAIN d \cup {rv.key} |-> IF k = rv.key THEN rv.dt ELSE d[k]]

\* wisdom = {}
EmptyDict == [k \in {} |-> DateTime(0, None)]

-----------------------------------------------------------------------------
(* The server.                                                             *)

\* tag catalogues get_all_tags may answer with
TagCatalogs ==
    {<<>>,
     <<[id |-> 1, name |-> "vacation", value |-> "Trips/vacation"]>>,
     <<[id |-> 1, name |-> "vacation", value |-> "Trips/vacation"],
       [id |-> 2, name |-> "holiday", value |-> "vacation"]>>}

\* {tag.value: id for tag in parsed}[v]: the last tag with the value wins
RECURSIVE LastWhere(_, _, _)
LastWhere(tags, field, v) ==
    IF tags = <<>> THEN <<>>
    ELSE LET t == tags[Len(tags)]
         IN  IF t[field] = v THEN <<t>>
             ELSE LastWhere(SubSeq(tags, 1, Len(tags) - 1), field, v)

\* the loop of _make_search_params over args.tags: <<>> when a tag is on
\* neither list (ValueError), else <<tag_ids>>
RECURSIVE ResolveTags(_, _)
ResolveTags(tags, catalog) ==
    IF tags = <<>> THEN << <<>> >>
    ELSE LET tag == Head(tags)
             by_value == LastWhere(catalog, "value", tag)
             by_name == LastWhere(catalog, "name", tag)
             rest == ResolveTags(Tail(tags), catalog)
         IN  IF by_value # <<>>
             THEN IF rest = <<>> THEN <<>> ELSE << <<by_value[1].id>> \o rest[1] >>
             ELSE IF by_name # <<>>
             THEN IF rest = <<>> THEN <<>> ELSE << <<by_name[1].id>> \o rest[1] >>
             ELSE <<>>

\* ExifResponseDto: date_time_original as the transport parsed it (naive, or
\* aware in UTC) and the stored zone name
Exifs ==
    [date_time_original : {<<>>} \cup {<<DateTime(h, z)>> : h \in Hours, z \in {None, "UTC"}},
     time_zone : {None, BadZone} \cup ZoneNames]

\* original_file_name of the assets on the server
AssetNames == {Path(KeyA, ".JPG"), Path(KeyB, ".JPG")}

\* next_page tokens and int(next_page)
PageToken(n) == CASE n = 1 -> "1" [] n = 2 -> "2" [] n = 3 -> "3" [] n = 4 -> "4" [] OTHER -> "5"
int(s) == CASE s = "1" -> 1 [] s = "2" -> 2 [] s = "3" -> 3 [] s = "4" -> 4 [] OTHER -> 5

-----------------------------------------------------------------------------
(* The reconciliation decision (run, lines 357-399).                       *)

\* the loop variable before the first iteration
NoAsset ==
    [id |-> <<0, 0>>, original_file_name |-> Path(<<>>, ""), orig_key |-> <<>>,
     summary |-> "unread", detail |-> "none", exif |-> <<>>,
     asset_dt |-> <<>>, asset_tz |-> None, correct_date |-> <<>>,
     outcome |-> "none", body |-> <<>>]

\* OrigKey with the prefixed key tried first
OrigKeyPrefixFirst(a, w, name) ==
    LET orig_key == name.stem
    IN  IF /\ ~a.no_files
           /\ a.try_prefix # <<>>
           /\ (a.try_prefix[1] \o orig_key) \in DOMAIN w
        THEN a.try_prefix[1] \o orig_key
        ELSE orig_key

\* orig_key after the prefix fallback (lines 357-367)
OrigKey(a, w, name) ==
    LET orig_key == name.stem
    IN  IF /\ ~a.no_files
           /\ a.try_prefix # <<>>
           /\ orig_key \notin DOMAIN w
           /\ (a.try_prefix[1] \o orig_key) \in DOMAIN w
        THEN a.try_prefix[1] \o orig_key
        ELSE orig_key

\* the gate of line 368
Eligible(a, w, orig_key) == a.no_files \/ orig_key \in DOMAIN w

\* e_info is UNSET: whether _get_asset_datetime_tz fetches the detail
NeedsDetail(summary) == summary = <<>>

\* _get_asset_datetime_tz, lines 262-280: (asset_dt, asset_tz) of an exif
AssetDatetimeTz(e_info, sys) ==
    IF e_info.date_time_original = <<>>
    THEN [dt |-> <<>>, tz |-> None]
    ELSE LET dto == e_info.date_time_original[1]
             asset_tz_str == e_info.time_zone
         IN  IF asset_tz_str = None
             THEN [dt |-> <<ReplaceTz(dto, None)>>, tz |-> None]
             ELSE LET asset_tz == gettz(asset_tz_str)
                  IN  IF asset_tz = None
                      THEN [dt |-> <<dto>>, tz |-> None]
                      ELSE [dt |-> <<AsTimezone(dto, asset_tz, sys)>>, tz |-> asset_tz]

\* CorrectDate with the override zone applied by conversion of the instant
CorrectDateConverting(a, dtz, w, orig_key, asset_dt) ==
    IF a.no_files
    THEN IF dtz # None /\ asset_dt # <<>>
         THEN <<AsTimezone(asset_dt[1], dtz, dtz)>>
         ELSE asset_dt
    ELSE <<w[orig_key]>>

\* correct_date of lines 375-381, <<>> for None
CorrectDate(a, dtz, w, orig_key, asset_dt) ==
    IF a.no_files
    THEN IF dtz # None /\ asset_dt # <<>>
         THEN <<ReplaceTz(asset_dt[1], dtz)>>
         ELSE asset_dt
    ELSE <<w[orig_key]>>

\* lines 387-388: a naive correct_date takes the asset's zone
BackFill(correct_date, asset_tz) ==
    IF IsNaive(correct_date) /\ asset_tz # None
    THEN ReplaceTz(correct_date, asset_tz)
    ELSE correct_date

\* AlreadyCorrect by the wall-clock fields alone
AlreadyCorrectByWallClock(asset_dt, asset_tz, correct_date) ==
    /\ asset_dt # <<>>
    /\ asset_dt[1].wall = correct_date.wall

\* the test of lines 389-395
AlreadyCorrect(asset_dt, asset_tz, correct_date) ==
    /\ asset_dt # <<>>
    /\ DateTimeEq(asset_dt[1], correct_date)
    /\ \/ correct_date.tz = asset_tz
       \/ /\ correct_date.tz # None
          /\ asset_tz # None
          /\ utcoffset(asset_tz, correct_date.wall)
               = utcoffset(correct_date.tz, correct_date.wall)

-----------------------------------------------------------------------------
(* Initial states: a command line and the files under its paths.           *)

\* the page layouts of a search result: 1..MaxPages pages of 0..MaxPageItems
\* items each
Layouts == SeqsUpTo(0..MaxPageItems, MaxPages) \ {<<>>}

Start(argset, filelists, layouts) ==
    /\ args \in argset
    /\ todo \in IF args.paths THEN filelists ELSE {<<>>}
    /\ srvPages \in layouts
    /\ pc = "start"
    /\ rc = "running"
    /\ errors = {}
    /\ default_tz = None
    /\ wisdom = EmptyDict
    /\ processed = 0
    /\ clientOpened = FALSE
    /\ search_params = [page |-> <<>>, tag_ids |-> <<>>]
    /\ response = [items |-> <<>>, next_page |-> None]
    /\ idx = 1
    /\ asset = NoAsset
    /\ called = {}
    /\ remoteChanged = FALSE
    /\ served = <<>>
    /\ yielded = <<>>

\* every command line and every file list, against a library of one asset
Init == Start(ArgsSet, FileLists, {<<1>>})

\* run() ends with `code` after the message `msg`
Return(code, msg) == pc' = "done" /\ rc' = code /\ errors' = errors \cup {msg}

\* run() goes on at `at`
Goto(at) == pc' = at /\ rc' = rc /\ errors' = errors

\* _parse_args(["-h"]) of lines 317 and 321: argparse prints the help and
\* leaves through sys.exit(0), so the `return 1` after it is not reached
HelpExit == "SystemExit(0)"

\* lines 312-333: the argument checks and the --timezone lookup
CheckArgs ==
    /\ pc = "start"
    /\ IF ~args.paths /\ ~args.no_files
       THEN Return(HelpExit, "No paths provided.") /\ UNCHANGED default_tz
       ELSE IF args.paths /\ args.no_files
       THEN Return(HelpExit, "Paths provided but --no-files specified.")
            /\ UNCHANGED default_tz
       ELSE IF args.timezone # None /\ gettz(args.timezone) = None
       THEN Return("1", "No such time zone known") /\ UNCHANGED default_tz
       ELSE /\ default_tz' = IF args.timezone = None THEN None ELSE gettz(args.timezone)
            /\ Goto(IF args.no_files THEN "client" ELSE "files")
    /\ UNCHANGED <<args, srvPages, todo, wisdom, processed, clientOpened, search_params,
                   response, idx, asset, called, remoteChanged, served, yielded>>

\* lines 339-343: one iteration of the loop over pathfiles(*args.paths)
ReadFile ==
    /\ pc = "files"
    /\ todo # <<>>
    /\ LET rv == _read_path(Head(todo), default_tz)
       IN  IF rv # <<>>
           THEN wisdom' = DictUpdate(wisdom, rv[1]) /\ processed' = processed + 1
           ELSE UNCHANGED <<wisdom, processed>>
    /\ todo' = Tail(todo)
    /\ UNCHANGED <<args, srvPages, pc, rc, errors, default_tz, clientOpened, search_params,
                   response, idx, asset, called, remoteChanged, served, yielded>>

\* FilesDone with the loop left before the enumeration is exhausted
FilesDoneEarly ==
    /\ pc = "files"
    /\ IF processed = 0 /\ todo = <<>>
       THEN Return("1", "No valid files processed; nothing to do.")
       ELSE Goto("client")
    /\ UNCHANGED <<args, srvPages, todo, default_tz, wisdom, processed, clientOpened,
                   search_params, response, idx, asset, called, remoteChanged,
                   served, yielded>>

\* lines 345-348: the end of the file loop
FilesDone ==
    /\ pc = "files"
    /\ todo = <<>>
    /\ IF processed = 0
       THEN Return("1", "No valid files processed; nothing to do.")
       ELSE Goto("client")
    /\ UNCHANGED <<args, srvPages, todo, default_tz, wisdom, processed, clientOpened,
                   search_params, response, idx, asset, called, remoteChanged,
                   served, yielded>>

\* lines 350-355 with _make_search_params (lines 227-245): the client is
\* opened and args.tags resolved against the server's tag list
MakeSearchParams ==
    /\ pc = "client"
    /\ clientOpened' = TRUE
    /\ IF args.tags = <<>>
       THEN /\ Goto("search")
            /\ UNCHANGED <<search_params, called>>
       ELSE /\ called' = called \cup {"tags"}
            /\ \E parsed \in {<<>>} \cup {<<c>> : c \in TagCatalogs} :
                 IF parsed = <<>>
                 THEN /\ Return("1", "No response from Immich server when fetching tags.")
                      /\ UNCHANGED search_params
                 ELSE LET tag_ids == ResolveTags(args.tags, parsed[1])
                      IN  IF tag_ids = <<>>
                          THEN /\ Return("1", "No such tag found on server")
                               /\ UNCHANGED search_params
                          ELSE /\ search_params' =
                                      [search_params EXCEPT !.tag_ids = tag_ids[1]]
                               /\ Goto("search")
    /\ UNCHANGED <<args, srvPages, todo, default_tz, wisdom, processed, response, idx,
                   asset, remoteChanged, served, yielded>>

\* the page number a request asks for
PageNo(sp) == IF sp.page = <<>> THEN 1 ELSE sp.page[1]

\* the server's answer to a search for page p: the items of that page, named
\* by page and place, and the token of the page after it
ServerPage(p) ==
    IF p \in 1..Len(srvPages)
    THEN [items |-> [i \in 1..srvPages[p] |-> <<p, i>>],
          next_page |-> IF p < Len(srvPages) THEN PageToken(p + 1) ELSE None]
    ELSE [items |-> <<>>, next_page |-> None]

\* _get_all_assets, lines 288-292: one search request.  The server answers
\* with nothing (parsed is None) or with the page asked for.
Search ==
    /\ pc = "search"
    /\ called' = called \cup {"search"}
    /\ \/ /\ Return("ImmichClientError", "No response from Immich server to asset search.")
          /\ UNCHANGED <<response, idx, served>>
       \/ /\ response' = ServerPage(PageNo(search_params))
          /\ idx' = 1
          /\ served' = Append(served, response'.items)
          /\ Goto("yield")
    /\ UNCHANGED <<args, srvPages, todo, default_tz, wisdom, processed, clientOpened,
                   search_params, asset, remoteChanged, yielded>>

\* line 296 with lines 356-368 and 415-418: the iterator yields the next
\* item of the page and the loop body matches it against wisdom
YieldAsset ==
    /\ pc = "yield"
    /\ idx <= Len(response.items)
    /\ \E name \in AssetNames :
         LET orig_key == OrigKey(args, wisdom, name)
             ok == Eligible(args, wisdom, orig_key)
         IN  /\ asset' = [NoAsset EXCEPT !.id = response.items[idx],
                                         !.original_file_name = name,
                                         !.orig_key = orig_key,
                                         !.outcome = IF ok THEN "eligible" ELSE "NoMatch"]
             /\ pc' = IF ok THEN "decide" ELSE "yield"
    /\ idx' = idx + 1
    /\ yielded' = Append(yielded, response.items[idx])
    /\ UNCHANGED <<args, srvPages, todo, rc, errors, default_tz, wisdom, processed, clientOpened,
                   search_params, response, called, remoteChanged, served>>

\* NextPageParam with the assignment to page lost
NextPageParamKept(sp, next_page) == sp

\* search_params.page after a page with a next page (line 299)
NextPageParam(sp, next_page) == [sp EXCEPT !.page = <<int(next_page)>>]

\* lines 297-299: after the last item of a page the iterator goes on to the
\* next page or ends, and with it the loop and run() (line 419)
PageDone ==
    /\ pc = "yield"
    /\ idx > Len(response.items)
    /\ IF response.next_page # None
       THEN /\ search_params' = NextPageParam(search_params, response.next_page)
            /\ Goto("search")
       ELSE /\ pc' = "done"
            /\ rc' = "0"
            /\ UNCHANGED <<errors, search_params>>
    /\ UNCHANGED <<args, srvPages, todo, default_tz, wisdom, processed, clientOpened,
                   response, idx, asset, called, remoteChanged, served, yielded>>

\* the decision of lines 373-399 on the exif e_info
Decided(a, e_info, sys) ==
    LET info == AssetDatetimeTz(e_info, sys)
        target == CorrectDate(args, default_tz, wisdom, a.orig_key, info.dt)
        correct_date == IF target = <<>> THEN <<>> ELSE <<BackFill(target[1], info.tz)>>
    IN  [a EXCEPT !.exif = <<e_info>>,
                  !.asset_dt = info.dt,
                  !.asset_tz = info.tz,
                  !.correct_date = correct_date,
                  !.outcome = IF correct_date = <<>> THEN "NoMatch"
                              ELSE IF AlreadyCorrect(info.dt, info.tz, correct_date[1])
                              THEN "AlreadyCorrect"
                              ELSE "differs"]

\* the system zones a naive date_time_original may be read in
SysZones(e_info) ==
    IF /\ e_info.date_time_original # <<>>
       /\ IsNaive(e_info.date_time_original[1])
       /\ gettz(e_info.time_zone) # None
    THEN ZoneNames ELSE {"UTC"}

\* AfterDecision with a failed detail request ending the run
AfterDecisionAbort(a) ==
    IF a.detail = "failed"
    THEN pc' = "done" /\ rc' = "1"
    ELSE pc' = (IF a.outcome = "differs" THEN "apply" ELSE "yield") /\ rc' = rc

\* lines 372, 386, 399 (continue) and 400: where the loop body goes after
\* the decision on asset a
AfterDecision(a) ==
    /\ pc' = IF a.outcome = "differs" THEN "apply" ELSE "yield"
    /\ rc' = rc

\* asset.exif_info as the search summary carries it
SummaryKind(summary) == IF summary = <<>> THEN "UNSET" ELSE "exif"

\* lines 257-259 and 370-372: no detail could be fetched, the asset is skipped
DetailFailure(a) == [a EXCEPT !.detail = "failed", !.outcome = "NoMatch"]

\* lines 369-399: _get_asset_datetime_tz, with its detail request when the
\* summary has no exif, and the decision
Decide ==
    /\ pc = "decide"
    /\ \E summary \in {<<>>} \cup {<<e>> : e \in Exifs} :
         IF NeedsDetail(summary)
         THEN /\ called' = called \cup {"detail"}
              /\ \E parsed \in {<<>>} \cup {<<e>> : e \in Exifs} :
                   IF parsed = <<>>
                   THEN /\ asset' = [DetailFailure(asset) EXCEPT
                                        !.summary = SummaryKind(summary)]
                        /\ errors' = errors \cup {"Failed to get full info for asset"}
                   ELSE /\ \E sys \in SysZones(parsed[1]) :
                             asset' = [Decided(asset, parsed[1], sys) EXCEPT
                                          !.summary = SummaryKind(summary), !.detail = "ok"]
                        /\ errors' = errors
         ELSE /\ called' = called
              /\ errors' = errors
              /\ \E sys \in SysZones(summary[1]) :
                   asset' = [Decided(asset, summary[1], sys) EXCEPT
                                !.summary = SummaryKind(summary)]
    /\ AfterDecision(asset')
    /\ UNCHANGED <<args, srvPages, todo, default_tz, wisdom, processed, clientOpened,
                   search_params, response, idx, remoteChanged, served, yielded>>

\* Apply with the dry-run test lost: the update request is always sent
ApplyIgnoringDryRun ==
    /\ pc = "apply"
    /\ asset' = [asset EXCEPT !.outcome = "Updated",
                              !.body = <<isoformat(asset.correct_date[1])>>]
    /\ called' = called \cup {"update"}
    /\ remoteChanged' = TRUE
    /\ pc' = "yield"
    /\ UNCHANGED <<args, srvPages, todo, rc, errors, default_tz, wisdom, processed,
                   clientOpened, search_params, response, idx, served, yielded>>

\* Apply with the update put off: the loop goes on with nothing sent
ApplyDeferred ==
    /\ pc = "apply"
    /\ pc' = "yield"
    /\ UNCHANGED <<args, srvPages, todo, rc, errors, default_tz, wisdom, processed,
                   clientOpened, search_params, response, idx, asset, called,
                   remoteChanged, served, yielded>>

\* lines 400-414: the report of a dry run, or the update request
Apply ==
    /\ pc = "apply"
    /\ IF args.dry_run
       THEN /\ asset' = [asset EXCEPT !.outcome = "WouldUpdate",
                                      !.body = <<isoformat(asset.correct_date[1])>>]
            /\ UNCHANGED <<called, remoteChanged>>
       ELSE /\ asset' = [asset EXCEPT !.outcome = "Updated",
                                      !.body = <<isoformat(asset.correct_date[1])>>]
            /\ called' = called \cup {"update"}
            /\ remoteChanged' = TRUE
    /\ pc' = "yield"
    /\ UNCHANGED <<args, srvPages, todo, rc, errors, default_tz, wisdom, processed, clientOpened,
                   search_params, response, idx, served, yielded>>

Next ==
    \/ CheckArgs
    \/ ReadFile
    \/ FilesDone
    \/ MakeSearchParams
    \/ Search
    \/ YieldAsset
    \/ PageDone
    \/ Decide
    \/ Apply

Spec == Init /\ [][Next]_vars

\* a few command lines and file lists, against every page layout
PagingArgs ==
    {a \in ArgsSet : /\ a.tags = <<>>
                     /\ a.try_prefix = <<>>
                     /\ a.timezone # BadZone
                     /\ a.paths = ~a.no_files}

PagingFiles ==
    {<<[path |-> Path(KeyA, ".JPG"),
        metadata |-> <<[DateTimeOriginal |-> <<0>>, OffsetTimeOriginal |-> "+01:00"]>>]>>}

InitPages == Start(PagingArgs, PagingFiles, Layouts)

SpecPages == InitPages /\ [][Next]_vars

-----------------------------------------------------------------------------
(* Properties.                                                             *)

\* the outcomes that stand for "an update is needed"
UpdateOutcomes == {"differs", "WouldUpdate", "Updated"}

\* the current asset has been through the decision of lines 373-399
IsDecided == asset.exif # <<>>

\* the items of all pages of the server's result, in page and item order
RECURSIVE ItemsFrom(_)
ItemsFrom(p) ==
    IF p > Len(srvPages) THEN <<>> ELSE ServerPage(p).items \o ItemsFrom(p + 1)

AllItems == ItemsFrom(1)

IsPrefix(a, b) == Len(a) <= Len(b) /\ a = SubSeq(b, 1, Len(a))

\* C1: in a dry run no update request is ever issued and the remote state
\* stays as it was; an asset whose target differs from its current state
\* ends reported as WouldUpdate, with the target in the report.
C1_DryRunNeverUpdates ==
    args.dry_run =>
        /\ "update" \notin called
        /\ ~remoteChanged
        /\ asset.outcome # "Updated"
        /\ (/\ IsDecided
            /\ pc # "apply"
            /\ asset.correct_date # <<>>
            /\ ~AlreadyCorrect(asset.asset_dt, asset.asset_tz, asset.correct_date[1]))
           => /\ asset.outcome = "WouldUpdate"
              /\ asset.body = <<isoformat(asset.correct_date[1])>>

\* a dry run that ended normally after at least two assets, the last one
\* reported
C1_Witness ==
    /\ args.dry_run
    /\ rc = "0"
    /\ Len(yielded) >= 2
    /\ asset.outcome = "WouldUpdate"

\* C3: in local-file mode the client is opened and remote calls are issued
\* only once every file has been read and some file gave a record; a run
\* whose files gave no record returns 1 with the client never opened and no
\* remote call issued.
C3_FilesBeforeRemote ==
    ~args.no_files =>
        /\ (clientOpened \/ called # {} \/ pc \in {"client", "search", "yield", "decide", "apply"})
              => todo = <<>> /\ processed > 0 /\ DOMAIN wisdom # {}
        /\ (pc = "done" /\ "No valid files processed; nothing to do." \in errors)
              => rc = "1" /\ ~clientOpened /\ called = {} /\ todo = <<>>
        /\ (pc = "done" /\ processed = 0 /\ todo = <<>> /\ errors \cap
                {"No paths provided.", "No such time zone known"} = {})
              => "No valid files processed; nothing to do." \in errors

\* a local-file run that read two files with records and went on to search
C3_Witness ==
    /\ ~args.no_files
    /\ processed = 2
    /\ "search" \in called

\* C4: the iterator yields the items of the pages the server holds in page
\* order and item order, each once; every request after the first asks for
\* the page the previous answer named; a run that ends normally has yielded
\* every item of every page and has been answered once per page; short of
\* the end the run can always take a step.
C4_Pagination ==
    /\ IsPrefix(yielded, AllItems)
    /\ Len(served) <= Len(srvPages)
    /\ \A k \in 1..Len(served) : served[k] = ServerPage(k).items
    /\ (pc = "search" /\ served # <<>>)
          => search_params.page = <<int(response.next_page)>>
    /\ (pc = "search" /\ served = <<>>) => search_params.page = <<>>
    /\ (pc = "done" /\ rc = "0")
          => /\ yielded = AllItems
             /\ Len(served) = Len(srvPages)
             /\ response.next_page = None
    /\ (pc = "yield" /\ response.next_page = None) => Len(served) = Len(srvPages)
    /\ pc \in {"yield", "decide", "apply"}
          => Len(yielded) = Len(ItemsFrom(1)) - Len(ItemsFrom(Len(served)))
                              + (idx - 1)
    /\ pc # "done" => ENABLED Next

\* a normal end after two pages that carried three items or more
C4_Witness ==
    /\ rc = "0"
    /\ Len(served) = 2
    /\ Len(yielded) >= 3

\* the messages of the configuration errors
ConfigErrors ==
    {"No paths provided.", "Paths provided but --no-files specified.",
     "No such time zone known", "No such tag found on server"}

\* C2: a run that ended on a configuration error (no paths, paths with
\* --no-files, unknown --timezone, unresolvable --tag) returned 1 and issued
\* no remote call.
C2_ConfigErrorReturns1BeforeRemote ==
    (pc = "done" /\ errors \cap ConfigErrors # {}) => rc = "1" /\ called = {}

\* C5: the asset of the current iteration went through the gate exactly when
\* the run is reset-only, or its stem is a key of wisdom, or a prefix is set
\* and prefix + stem is a key while the stem is not; an asset that did not
\* is NoMatch with no detail request and no update; the key used is the
\* stem when the stem is in wisdom, and the target is the record under it.
C5_EligibilityGate ==
    asset.id # <<0, 0>> =>
        LET stem == asset.original_file_name.stem
            direct == stem \in DOMAIN wisdom
            prefixed == /\ args.try_prefix # <<>>
                        /\ ~direct
                        /\ (args.try_prefix[1] \o stem) \in DOMAIN wisdom
            gate == args.no_files \/ direct \/ prefixed
        IN  /\ ~gate => /\ asset.outcome = "NoMatch"
                        /\ asset.summary = "unread"
                        /\ asset.detail = "none"
                        /\ asset.body = <<>>
                        /\ pc \notin {"decide", "apply"}
            /\ (asset.detail # "none" \/ asset.outcome \in UpdateOutcomes) => gate
            /\ gate => (pc = "decide" \/ asset.summary # "unread")
            /\ (~args.no_files /\ direct) =>
                  /\ asset.orig_key = stem
                  /\ IsDecided =>
                        asset.correct_date = <<BackFill(wisdom[stem], asset.asset_tz)>>
            /\ (~args.no_files /\ prefixed) =>
                  /\ asset.orig_key = args.try_prefix[1] \o stem
                  /\ IsDecided =>
                        asset.correct_date =
                            <<BackFill(wisdom[args.try_prefix[1] \o stem], asset.asset_tz)>>

\* an asset updated from the record under its own stem while wisdom also
\* holds a different record under prefix + stem
C5_Witness ==
    /\ args.try_prefix # <<>>
    /\ asset.original_file_name.stem = KeyA
    /\ {KeyA, Prefix \o KeyA} \subseteq DOMAIN wisdom
    /\ wisdom[KeyA] # wisdom[Prefix \o KeyA]
    /\ asset.outcome = "Updated"

\* C6: the detail request is issued exactly when the summary has no exif;
\* an asset whose detail request failed gets no update and the loop goes
\* on: the run never returns 1 after such a failure, it fails only on a
\* failed search, and when it ends normally every item was yielded.
C6_DetailFailureSkipsAsset ==
    /\ asset.detail = "failed" =>
          /\ asset.outcome = "NoMatch"
          /\ asset.body = <<>>
          /\ asset.exif = <<>>
          /\ pc \in {"yield", "search", "done"}
    /\ asset.detail # "none" <=> asset.summary = "UNSET"
    /\ "Failed to get full info for asset" \in errors =>
          /\ "detail" \in called
          /\ rc \in {"running", "0", "ImmichClientError"}
          /\ rc = "ImmichClientError" =>
                "No response from Immich server to asset search." \in errors
          /\ rc = "0" => yielded = AllItems
          /\ pc # "done" => ENABLED Next

\* a run that ended normally after a failed detail request, its last asset
\* updated after a detail request of its own
C6_Witness ==
    /\ "Failed to get full info for asset" \in errors
    /\ rc = "0"
    /\ asset.detail = "ok"
    /\ asset.outcome = "Updated"

\* a decided asset in local-file mode whose exif has a date_time_original
\* and no zone name, matched to an aware local record with the same
\* wall-clock fields
AwareRecordZonelessAsset ==
    /\ IsDecided
    /\ ~args.no_files
    /\ asset.exif[1].time_zone = None
    /\ asset.exif[1].date_time_original # <<>>
    /\ ~IsNaive(wisdom[asset.orig_key])
    /\ asset.exif[1].date_time_original[1].wall = wisdom[asset.orig_key].wall

\* C7 as stated: an aware local record and an asset with no zone name whose
\* wall-clock fields agree are equal, the outcome is AlreadyCorrect.
C7_AwareRecordEqualsZonelessAsset ==
    AwareRecordZonelessAsset => asset.outcome = "AlreadyCorrect"

\* C7: an aware local record and an asset with no zone name whose wall-clock
\* fields agree are not equal (the asset's timestamp is naive): the target
\* is the local record as read, and the asset is updated to it, or
\* reported in a dry run.
C7_AwareRecordUpdatesZonelessAsset ==
    AwareRecordZonelessAsset =>
        /\ IsNaive(asset.asset_dt[1])
        /\ asset.asset_tz = None
        /\ asset.correct_date = <<wisdom[asset.orig_key]>>
        /\ asset.outcome \in UpdateOutcomes
        /\ asset.outcome = "differs" <=> pc = "apply"
        /\ asset.outcome = "WouldUpdate" => args.dry_run /\ asset.body = <<isoformat(wisdom[asset.orig_key])>>
        /\ asset.outcome = "Updated" =>
              /\ ~args.dry_run
              /\ "update" \in called
              /\ asset.body = <<isoformat(wisdom[asset.orig_key])>>

\* a zoneless asset updated to the aware local record of the same wall clock
C7_Witness ==
    /\ AwareRecordZonelessAsset
    /\ asset.outcome = "Updated"

\* C8: a target identical in wall-clock fields and zone to the asset's
\* derived timestamp is AlreadyCorrect; a reset-only run with no override
\* zone updates no asset and reports none.
C8_ReflexiveEquality ==
    /\ (IsDecided /\ asset.correct_date # <<>> /\ asset.correct_date = asset.asset_dt)
          => asset.outcome = "AlreadyCorrect"
    /\ (args.no_files /\ default_tz = None) =>
          /\ asset.outcome \notin UpdateOutcomes
          /\ "update" \notin called

\* C9: reset-only with an override zone: no date_time_original gives no
\* target and NoMatch; else the target is the wall-clock fields of the
\* asset's timestamp, as expressed in the asset's own zone, labelled with
\* the override zone, and when the override's offset at that wall clock
\* differs from the asset's offset the asset is updated to that target.
C9_ResetOnlyOverride ==
    (IsDecided /\ args.no_files /\ default_tz # None) =>
        LET e_info == asset.exif[1]
        IN  IF e_info.date_time_original = <<>>
            THEN /\ asset.asset_dt = <<>>
                 /\ asset.correct_date = <<>>
                 /\ asset.outcome = "NoMatch"
                 /\ asset.body = <<>>
            ELSE LET dto == e_info.date_time_original[1]
                     current == asset.asset_dt[1]
                 IN  /\ (gettz(e_info.time_zone) # None /\ ~IsNaive(dto)) =>
                            /\ current.tz = e_info.time_zone
                            /\ Instant(current) = Instant(dto)
                     /\ asset.correct_date = <<DateTime(current.wall, default_tz)>>
                     /\ (/\ ~IsNaive(current)
                         /\ utcoffset(default_tz, current.wall)
                              # utcoffset(current.tz, current.wall)) =>
                            /\ asset.outcome \in UpdateOutcomes
                            /\ asset.body # <<>> =>
                                  asset.body =
                                      <<[wall |-> current.wall,
                                         offset |-> <<utcoffset(default_tz, current.wall)>>]>>

\* an asset at 01:00 in "UTC" relabelled 01:00+01:00 by the override zone
C9_Witness ==
    /\ args.no_files
    /\ default_tz = "Europe/London"
    /\ asset.asset_dt = <<DateTime(1, "UTC")>>
    /\ asset.outcome = "Updated"
    /\ asset.body = <<[wall |-> 1, offset |-> <<1>>]>>

\* C10: when the target and the asset both carry a zone, the outcome is
\* AlreadyCorrect exactly when the wall-clock fields agree and the two
\* zones have the same offset for the target; this covers a naive target
\* labelled with the asset's zone.
C10_OffsetEquivalence ==
    (/\ IsDecided
     /\ asset.correct_date # <<>>
     /\ asset.asset_dt # <<>>
     /\ asset.asset_tz # None
     /\ ~IsNaive(asset.correct_date[1])) =>
        LET target == asset.correct_date[1]
            current == asset.asset_dt[1]
        IN  asset.outcome = "AlreadyCorrect" <=>
                /\ current.wall = target.wall
                /\ utcoffset(asset.asset_tz, target.wall) = utcoffset(target.tz, target.wall)

\* C11: every file visited that has a supported extension, metadata and a
\* capture-time tag makes its own record the entry of its stem and leaves
\* every other entry as it was; a file with an unsupported extension, no
\* metadata or no capture-time tag leaves the map as it was; nothing but
\* the visit of a file changes the map.  So the entry of a key is the
\* record of the last file visited that produced the key.
C11_LastFileWins ==
    [][IF pc = "files" /\ todo # <<>>
       THEN LET file == Head(todo)
                k == file.path.stem
                yields == /\ lower(file.path.suffix) \in MediaSuffixes
                          /\ file.metadata # <<>>
                          /\ file.metadata[1].DateTimeOriginal # <<>>
            IN  /\ todo' = Tail(todo)
                /\ IF ~yields
                   THEN wisdom' = wisdom
                   ELSE /\ DOMAIN wisdom' = DOMAIN wisdom \cup {k}
                        /\ wisdom'[k].wall = file.metadata[1].DateTimeOriginal[1]
                        /\ wisdom'[k].tz =
                              IF file.metadata[1].OffsetTimeOriginal = None
                              THEN default_tz
                              ELSE "UTC" \o file.metadata[1].OffsetTimeOriginal
                        /\ \A j \in DOMAIN wisdom \ {k} : wisdom'[j] = wisdom[j]
       ELSE wisdom' = wisdom /\ todo' = todo]_vars

\* two files gave a record for the same key, and the map holds one entry
C11_Witness ==
    /\ pc = "files"
    /\ todo = <<>>
    /\ processed = 2
    /\ DOMAIN wisdom = {KeyA}

\* the items of the pages answered so far, in order
RECURSIVE Concat(_)
Concat(pages) ==
    IF pages = <<>> THEN <<>> ELSE Head(pages) \o Concat(Tail(pages))

\* the elements of a sequence
Range(q) == {q[i] : i \in 1..Len(q)}

\* the current asset is through: nothing of its decision, detail request or
\* update is still to come
AssetThrough == asset.outcome \notin {"eligible", "differs"}

\* C12: a search request is issued only when every item of the pages
\* answered so far was yielded and the last asset is through, its update
\* included; the decision (with its detail request) is entered once per
\* asset, on its yield, and the update once, from the decision of the same
\* asset; an update once applied stays applied; a failed search ends the
\* run at once, after those updates, and no step follows it.
C12_LazyPaging ==
    /\ [](/\ pc = "search" => yielded = Concat(served) /\ AssetThrough
          /\ pc \in {"decide", "apply"} =>
                /\ yielded # <<>>
                /\ asset.id = yielded[Len(yielded)]
                /\ asset.id \in Range(Concat(served))
                /\ asset.body = <<>>
          /\ pc = "decide" => asset.detail = "none" /\ asset.outcome = "eligible"
          /\ pc = "apply" => asset.outcome = "differs"
          /\ asset.outcome = "Updated" => remoteChanged /\ "update" \in called
          /\ rc = "ImmichClientError" =>
                /\ pc = "done"
                /\ yielded = Concat(served)
                /\ AssetThrough)
    /\ [][/\ rc = "running"
          /\ called' # called => pc \in {"client", "search", "decide", "apply"}
          /\ pc = "search" => /\ "search" \in called'
                              /\ pc' \in {"yield", "done"}
                              /\ asset' = asset
                              /\ remoteChanged' = remoteChanged
          /\ pc' = "search" => pc \in {"client", "yield"}
          /\ pc' = "decide" => /\ pc = "yield"
                               /\ asset'.id \notin Range(yielded)
                               /\ yielded' = Append(yielded, asset'.id)
          /\ pc = "decide" => pc' \in {"apply", "yield"} /\ asset'.id = asset.id
          /\ pc' = "apply" => pc = "decide"
          /\ pc = "apply" => /\ pc' = "yield"
                             /\ asset'.id = asset.id
                             /\ asset'.outcome \in {"Updated", "WouldUpdate"}
          /\ remoteChanged => remoteChanged'
          /\ "update" \in called' \ called => pc = "apply"
          /\ "detail" \in called' \ called => pc = "decide"]_vars

\* the request for the second page failed after an asset of the first page
\* was updated following a detail request
C12_Witness ==
    /\ rc = "ImmichClientError"
    /\ Len(served) = 1
    /\ Len(srvPages) = 2
    /\ asset.detail = "ok"
    /\ asset.outcome = "Updated"
    /\ remoteChanged

====
